---- MODULE Spec2Model ----
(***************************************************************************)
(* Model of group_project_v2/stage_components.py:                          *)
(*   - GroupProjectSubmissionXBlock: get_upload, upload_submission,        *)
(*     persist_and_submit_file;                                            *)
(*   - GroupProjectBaseFeedbackDisplayXBlock.student_view with the         *)
(*     get_feedback of its two subclasses.                                 *)
(* A request is executed step by step (pc); no other handler of the block  *)
(* runs while a request is in progress.  Text is a sequence of tokens      *)
(* (messages) or of characters (answers).                                  *)
(***************************************************************************)
EXTENDS Integers, Sequences, FiniteSets, TLC

VARIABLES
    upload_id,        \* GroupProjectSubmissionXBlock.upload_id (block setting)
    submission_map,   \* project_api: group -> (upload id -> latest submission)
    storage,          \* names of the files save_file has stored
    next_submission,  \* submissions recorded so far by the submissions API
    stage_complete,   \* the stage has been marked complete
    pc,               \* position of the upload_submission request
    req,              \* the request in progress / last request
    calls,            \* collaborator calls made by the request, in order
    uploaded_file,    \* the UploadFile of the request
    relay_returned,   \* persist_and_submit_file has returned normally
    response_data,    \* the dict the handler builds
    failure_code,     \* the handler's failure_code
    exception,        \* exceptions caught by the handler's except clause
    response,         \* responses returned by the handler
    upload,           \* result of get_upload, until the next request
    question_id,      \* feedback display block setting
    show_mean,        \* feedback display block setting
    api_items,        \* review items the project API holds for the stage
    view,             \* results of the feedback display student_view
    rq_question_id,   \* GroupProjectReviewQuestionXBlock.question_id
    question_content, \* review question setting: the XML of the answer control
    single_line,      \* review question setting
    required,         \* review question setting
    question_css_classes, \* review question setting (None or the classes)
    question_view     \* results of the review question's student_view

vars == <<upload_id, submission_map, storage, next_submission, stage_complete,
          pc, req, calls, uploaded_file, relay_returned, response_data,
          failure_code, exception, response, upload, question_id, show_mean, api_items, view,
          rq_question_id, question_content, single_line, required,
          question_css_classes, question_view>>

submissionVars == <<upload_id, submission_map, storage, next_submission,
                    stage_complete, pc, req, calls, uploaded_file,
                    relay_returned, response_data, failure_code, exception,
                    response, upload>>

feedbackVars == <<question_id, show_mean, api_items, view>>

questionVars == <<rq_question_id, question_content, single_line, required,
                  question_css_classes, question_view>>

----------------------------------------------------------------------------
(* Bounds and universes *)

MaxSubmissions == 2          \* submissions the API records in one behaviour
MaxItems == 2                \* review items the API holds
MaxContentLen == 4           \* tokens of a review question's content

UploadIds == {"doc1", "doc2"}
Groups == {1, 2}
WorkgroupId == 1             \* activity.workgroup['id'] of the requesting user
UserId == 7                  \* activity.user_id
FileNames == {"f.pdf", "g.pdf"}

\* An optional value is a sequence of length 0 (None) or 1.
None == <<>>
Some(v) == <<v>>

----------------------------------------------------------------------------
(* Class constants of GroupProjectSubmissionXBlock *)

STAGE_NOT_OPEN_TEMPLATE(action) == <<"Can't ", action, " as stage is not yet opened.">>
STAGE_CLOSED_TEMPLATE(action) == <<"Can't ", action, " as stage is closed.">>
SUCCESSFUL_UPLOAD_TITLE == "Upload complete."
FAILED_UPLOAD_TITLE == "Upload failed."
SUCCESSFUL_UPLOAD_MESSAGE_TPL(icon) ==
    <<"Your deliverable have been successfully uploaded. <span class='icon ", icon, "'></span>">>
FAILED_UPLOAD_MESSAGE_TPL(error_goes_here) == <<"Error uploading file: ">> \o error_goes_here
SUBMISSION_RECEIVED_EVENT == "activity.received_submission"
ONLY_GROUP_MEMBERS_MESSAGE == <<"Only group members can upload files">>
UNKNOWN_ERROR == <<"Unknown error">>
STAGE_ACTION == "upload submission"

UNPROCESSABLE_ENTITY == 422
FORBIDDEN == 403
INTERNAL_ERROR == 500
HTTP_OK == 200

----------------------------------------------------------------------------
(* Exceptions the collaborators can raise *)

\* ApiError carries the status code of the failed API call (an HTTP error
\* status, or 1000 for a client-side error) and always has a message.
ApiErrorCodes == {404, 1000}

ApiErrors == {[kind |-> "ApiError", code |-> c, has_message |-> TRUE,
               message |-> <<"api failure">>, origin |-> ""] : c \in ApiErrorCodes}

\* Any other exception; whether it has a `message` attribute depends on the
\* exception class and the interpreter.
PlainErrors == {[kind |-> "Exception", code |-> 0, has_message |-> h,
                 message |-> IF h THEN <<"boom">> ELSE <<>>, origin |-> ""] : h \in BOOLEAN}

Exceptions == ApiErrors \cup PlainErrors

KeyErrors == {[kind |-> "KeyError", code |-> 0, has_message |-> h,
               message |-> IF h THEN <<"upload_id">> ELSE <<>>,
               origin |-> "request.params"] : h \in BOOLEAN}

\* The traceback of a raised exception names the call that raised it.
Raised(e, origin) == [e EXCEPT !.origin = origin]

\* The outcome of a collaborator call: it returns, or raises one exception.
Outcomes == {None} \cup {Some(e) : e \in Exceptions}

----------------------------------------------------------------------------
(* The stage *)

\* stage.available_now: the stage has opened and has not closed.
available_now(r) == r.is_open /\ ~r.is_closed

\* stage.check_submissions_and_mark_complete: the stage becomes complete when
\* every upload slot of the workgroup holds a submission.
all_slots_filled(map) == \A u \in UploadIds : u \in DOMAIN map

----------------------------------------------------------------------------
(* Dictionaries: functions from keys; d.get(k, None) *)

Get(d, k) == IF k \in DOMAIN d THEN Some(d[k]) ELSE None

EmptyDict == [k \in {} |-> 0]

----------------------------------------------------------------------------
(* get_upload *)

MonthNames == <<"Jan", "Feb", "Mar">>

\* format_date(build_date_field(modified)): "YYYY-MM-DD" to "Mon DD".
format_date(modified) == <<MonthNames[modified[2]], modified[3]>>

SubmissionUpload(location, file_name, submission_date, user_details) ==
    [location |-> location, file_name |-> file_name,
     submission_date |-> submission_date, user_details |-> user_details]

\* Mutant: a default record is synthesized when there is no submission.
get_upload_default(map, uid) ==
    LET submission_data == IF uid \in DOMAIN map THEN map[uid]
                           ELSE [document_url |-> <<>>, document_filename |-> "",
                                 modified |-> <<2015, 1, 1>>]
    IN  Some(SubmissionUpload(submission_data["document_url"],
                              submission_data["document_filename"],
                              format_date(submission_data["modified"]),
                              Get(submission_data, "user_details")))

get_upload(map, uid) ==
    LET submission_data == Get(map, uid)
    IN  IF submission_data = None
        THEN None
        ELSE Some(SubmissionUpload(submission_data[1]["document_url"],
                                   submission_data[1]["document_filename"],
                                   format_date(submission_data[1]["modified"]),
                                   Get(submission_data[1], "user_details")))

----------------------------------------------------------------------------
(* upload_submission: the gate *)

Call(name) == [name |-> name, event |-> "", keys |-> {}]

\* Mutant: the condition of line 271 inverted.
TimingTemplate_inverted(r) ==
    IF r.is_open THEN STAGE_NOT_OPEN_TEMPLATE(STAGE_ACTION)
                 ELSE STAGE_CLOSED_TEMPLATE(STAGE_ACTION)

TimingTemplate(r) ==
    IF ~r.is_open THEN STAGE_NOT_OPEN_TEMPLATE(STAGE_ACTION)
                  ELSE STAGE_CLOSED_TEMPLATE(STAGE_ACTION)

\* Mutant: the membership branch (line 275) is missing.
Gate_no_membership(r) ==
    IF ~available_now(r) THEN "timing" ELSE "permitted"

Gate(r) ==
    IF ~available_now(r) THEN "timing"
    ELSE IF ~r.is_group_member THEN "membership"
    ELSE "permitted"

\* Mutant: the membership branch answers with the timing code.
GateFailureCode_422(g) ==
    IF g = "permitted" THEN 0 ELSE UNPROCESSABLE_ENTITY

GateFailureCode(g) ==
    IF g = "timing" THEN UNPROCESSABLE_ENTITY
    ELSE IF g = "membership" THEN FORBIDDEN
    ELSE 0

GateResponseData(r) ==
    IF Gate(r) = "timing"
        THEN [result |-> "error", message |-> TimingTemplate(r)]
    ELSE IF Gate(r) = "membership"
        THEN [result |-> "error", message |-> ONLY_GROUP_MEMBERS_MESSAGE]
    ELSE [title |-> SUCCESSFUL_UPLOAD_TITLE,
          message |-> SUCCESSFUL_UPLOAD_MESSAGE_TPL("fa fa-paperclip")]

\* webob.response.Response(body=...), status_code set only for a failure code.
MakeResponse(data, code) ==
    [body |-> data, status_code |-> IF code # 0 THEN code ELSE HTTP_OK]

----------------------------------------------------------------------------
(* The feedback display blocks *)

\* question values of the review items and of the block setting
QuestionIds == {"q1", "Q1", "q2"}

\* question_id of the questions of the activity (activity_questions)
ActivityQuestions == <<"q1", "Q1">>

\* answers of review items, as sequences of characters
Answers == {<<"3">>, <<"5">>, <<"1", "0">>, <<"<", "b", ">">>, <<"&", "l", "t", ";">>,
            <<"n", "/", "a">>}

ReviewItems == [question : QuestionIds, answer : Answers]

\* django.utils.html.escape, character by character
EscapeChar(c) ==
    IF c = "&" THEN <<"&", "a", "m", "p", ";">>
    ELSE IF c = "<" THEN <<"&", "l", "t", ";">>
    ELSE IF c = ">" THEN <<"&", "g", "t", ";">>
    ELSE IF c = "\"" THEN <<"&", "q", "u", "o", "t", ";">>
    ELSE IF c = "'" THEN <<"&", "#", "3", "9", ";">>
    ELSE <<c>>

RECURSIVE EscapeText(_)
EscapeText(text) ==
    IF text = <<>> THEN <<>> ELSE EscapeChar(Head(text)) \o EscapeText(Tail(text))

\* Mutant: the answer is put in the list as it is.
escape_missing(text) == text

\* html.escape(item['answer']), line 616
escape(text) == EscapeText(text)

\* Mutant: the question ids are compared without regard to case.
Lower(q) == IF q = "Q1" THEN "q1" ELSE q

get_feedback_casefold(all_feedback, qid) ==
    SelectSeq(all_feedback, LAMBDA item : Lower(item.question) = Lower(qid))

\* get_feedback of both display blocks, lines 688 and 704
get_feedback(all_feedback, qid) ==
    SelectSeq(all_feedback, LAMBDA item : item.question = qid)

\* the lazy property `question`, lines 596-605: the position of the selected
\* question among the activity's questions, 0 for None, -1 for the ValueError
question(qid) ==
    LET matching_questions == {i \in 1..Len(ActivityQuestions) : ActivityQuestions[i] = qid}
    IN  IF Cardinality(matching_questions) > 1 THEN -1
        ELSE IF matching_questions = {} THEN 0
        ELSE CHOOSE i \in matching_questions : TRUE

\* lines 614-616
RECURSIVE EscapedAnswers(_)
EscapedAnswers(raw_feedback) ==
    IF raw_feedback = <<>> THEN <<>>
    ELSE <<escape(Head(raw_feedback).answer)>> \o EscapedAnswers(Tail(raw_feedback))

Digits == <<"0", "1", "2", "3", "4", "5", "6", "7", "8", "9">>
DigitValue(c) == (CHOOSE d \in 1..10 : Digits[d] = c) - 1
IsDigit(c) == \E d \in 1..10 : Digits[d] = c

\* float(v) succeeds on the decimal numerals of the answers
IsNumeric(text) == text # <<>> /\ \A i \in 1..Len(text) : IsDigit(text[i])

RECURSIVE NumericValue(_)
NumericValue(text) ==
    IF text = <<>> THEN 0
    ELSE 10 * NumericValue(SubSeq(text, 1, Len(text) - 1)) + DigitValue(text[Len(text)])

RECURSIVE Sum(_)
Sum(values) == IF values = <<>> THEN 0 ELSE NumericValue(Head(values)) + Sum(Tail(values))

\* "{0:.1f}".format(x) of x = total / count: the tenths, rounded half to even
Tenths(total, count) ==
    LET q == (10 * total) \div count
        r == (10 * total) % count
    IN  IF 2 * r > count \/ (2 * r = count /\ q % 2 = 1) THEN q + 1 ELSE q

FormatMean(total, count) ==
    <<Tenths(total, count) \div 10, ".", Tenths(total, count) % 10>>

NOT_APPLICABLE == <<"N/A">>

\* utils.mean raises ValueError when a value is not a number; the mean of no
\* values is not a number either
MeanRaises(values) ==
    values = <<>> \/ \E i \in 1..Len(values) : ~IsNumeric(values[i])

\* Mutant: the answers that are not numbers are left out of the mean.
RenderedMean_skip_bad(feedback) ==
    LET numbers == SelectSeq(feedback, IsNumeric)
    IN  IF numbers = <<>> THEN NOT_APPLICABLE
        ELSE FormatMean(Sum(numbers), Len(numbers))

\* Mutant: the mean of no answers is taken to be zero.
RenderedMean_zero(feedback) ==
    IF feedback = <<>> THEN <<0, ".", 0>>
    ELSE IF MeanRaises(feedback) THEN NOT_APPLICABLE
    ELSE FormatMean(Sum(feedback), Len(feedback))

\* lines 621-626
RenderedMean(feedback) ==
    IF MeanRaises(feedback) THEN NOT_APPLICABLE
    ELSE FormatMean(Sum(feedback), Len(feedback))

\* student_view of the feedback display, lines 607-630
student_view_result(items, qid, want_mean, outsider) ==
    IF question(qid) < 1
        THEN [kind |-> "ValueError", feedback |-> <<>>, has_mean |-> FALSE, mean |-> <<>>]
    ELSE IF outsider
        THEN [kind |-> "error_fragment", feedback |-> <<>>, has_mean |-> FALSE, mean |-> <<>>]
    ELSE LET feedback == EscapedAnswers(get_feedback(items, qid))
         IN  [kind |-> "rendered", feedback |-> feedback, has_mean |-> want_mean,
              mean |-> IF want_mean THEN RenderedMean(feedback) ELSE <<>>]

----------------------------------------------------------------------------
(* The review question block *)

\* question_content is a sequence of XML tokens
OpenTags == {"<input", "<select"}
ClassAttribute == " class='c'"
XmlTokens == OpenTags \cup {ClassAttribute, "/>", ">", "</select>"}

CloseTag(open) == IF open = "<select" THEN "</select>" ELSE "</input>"

\* ElementTree.fromstring: the position after the element that starts at
\* position p, 0 when there is no well-formed element there
RECURSIVE ParseElement(_, _)
RECURSIVE ParseChildren(_, _, _)

ParseElement(t, p) ==
    IF p > Len(t) \/ t[p] \notin OpenTags THEN 0
    ELSE LET q == IF p + 1 <= Len(t) /\ t[p + 1] = ClassAttribute THEN p + 2 ELSE p + 1
         IN  IF q > Len(t) THEN 0
             ELSE IF t[q] = "/>" THEN q + 1
             ELSE IF t[q] = ">" THEN ParseChildren(t, q + 1, CloseTag(t[p]))
             ELSE 0

ParseChildren(t, p, close) ==
    IF p > Len(t) THEN 0
    ELSE IF t[p] = close THEN p + 1
    ELSE LET e == ParseElement(t, p)
         IN  IF e = 0 THEN 0 ELSE ParseChildren(t, e, close)

\* ElementTree.fromstring raises ParseError unless the content is one element
ParseError(content) == ParseElement(content, 1) # Len(content) + 1

\* the node ElementTree.fromstring returns for well-formed content
AnswerNode(content) ==
    [tag |-> content[1],
     attrib |-> IF content[2] = ClassAttribute THEN [class |-> <<"c">>] ELSE EmptyDict,
     inner |-> SubSeq(content, IF content[2] = ClassAttribute THEN 3 ELSE 2, Len(content))]

\* utils.outer_html: the markup of the node
outer_html(node) == <<node>>

PARSE_ERROR_MESSAGE_TPL ==
    "Exception when parsing question content for question {question_id}. Content is [{content}]."

\* lines 516-526
AnswerClasses(node, is_single_line, is_closed) ==
    <<"answer">> \o (IF "class" \in DOMAIN node.attrib THEN node.attrib["class"] ELSE <<>>)
                 \o (IF is_single_line THEN <<"side">> ELSE <<>>)
                 \o (IF is_closed THEN <<>> ELSE <<"editable">>)

\* lines 514-526: the attributes set on the answer node
AnswerAttributes(node, qid, is_single_line, is_closed) ==
    (IF is_closed THEN [disabled |-> "disabled"] ELSE EmptyDict)
    @@ [name |-> qid, id |-> qid, class |-> AnswerClasses(node, is_single_line, is_closed)]

\* Mutant: the ParseError is not caught and leaves render_content.
render_content_uncaught(content, qid, is_single_line, is_closed) ==
    IF ParseError(content)
    THEN [raised |-> TRUE, markup |-> <<>>, logged |-> <<>>]
    ELSE [raised |-> FALSE,
          markup |-> outer_html([AnswerNode(content) EXCEPT
                        !.attrib = AnswerAttributes(AnswerNode(content), qid,
                                                    is_single_line, is_closed)]),
          logged |-> <<>>]

\* render_content, lines 505-528: the markup returned ("" is <<>>) and what
\* was logged; raised: an exception left the method
render_content(content, qid, is_single_line, is_closed) ==
    IF ParseError(content)
    THEN [raised |-> FALSE, markup |-> <<>>, logged |-> <<PARSE_ERROR_MESSAGE_TPL>>]
    ELSE [raised |-> FALSE,
          markup |-> outer_html([AnswerNode(content) EXCEPT
                        !.attrib = AnswerAttributes(AnswerNode(content), qid,
                                                    is_single_line, is_closed)]),
          logged |-> <<>>]

\* lines 531-535
QuestionClasses(is_required, css_classes) ==
    <<"question">> \o (IF is_required THEN <<"required">> ELSE <<>>) \o css_classes

\* student_view of the review question, lines 530-545
question_student_view_result(content, qid, is_single_line, is_required, css_classes, is_closed) ==
    LET rendered == render_content(content, qid, is_single_line, is_closed)
    IN  IF rendered.raised
        THEN [kind |-> "raised", question_classes |-> <<>>, question_content |-> <<>>,
              logged |-> rendered.logged]
        ELSE [kind |-> "rendered",
              question_classes |-> QuestionClasses(is_required, css_classes),
              question_content |-> rendered.markup, logged |-> rendered.logged]

----------------------------------------------------------------------------
(* Initial state *)

\* A submission recorded before the API returned user details.
LegacySubmission ==
    [document_url |-> <<"http://x/", "old.pdf">>, document_filename |-> "old.pdf",
     modified |-> <<2015, 1, 1>>]

InitSubmission ==
    /\ upload_id \in UploadIds
    /\ \E other \in SUBSET (UploadIds \ {upload_id}) :
          submission_map = [g \in Groups |->
              IF g = WorkgroupId THEN [u \in other |-> LegacySubmission]
              ELSE [u \in {"doc1"} |-> LegacySubmission]]
    /\ storage = {}
    /\ next_submission = 0
    /\ stage_complete = FALSE
    /\ pc = "idle"
    /\ req = [is_open |-> FALSE, is_closed |-> FALSE, is_group_member |-> FALSE,
              has_param |-> FALSE, file_name |-> "f.pdf",
              notifications_service |-> FALSE]
    /\ calls = <<>>
    /\ uploaded_file = None
    /\ relay_returned = FALSE
    /\ response_data = EmptyDict
    /\ failure_code = 0
    /\ exception = None
    /\ response = None
    /\ upload = None

InitFeedbackIdle ==
    /\ question_id = "q1"
    /\ show_mean = FALSE
    /\ api_items = <<>>
    /\ view = None

\* The review question with its default settings.
InitQuestionIdle ==
    /\ rq_question_id = "q1"
    /\ question_content = <<>>
    /\ single_line = FALSE
    /\ required = FALSE
    /\ question_css_classes = None
    /\ question_view = None

Init == InitSubmission /\ InitFeedbackIdle /\ InitQuestionIdle

----------------------------------------------------------------------------
(* upload_submission, lines 266-296: the gate and the request parameter *)

\* A request: the state of the stage and of the runtime when it arrives, and
\* its payload (has_param: the payload has the upload_id field).
Requests ==
    [is_open : BOOLEAN, is_closed : BOOLEAN, is_group_member : BOOLEAN,
     has_param : BOOLEAN, file_name : FileNames, notifications_service : BOOLEAN]

upload_submission(r) ==
    /\ pc = "idle"
    /\ req' = r
    /\ calls' = <<>>
    /\ uploaded_file' = None
    /\ relay_returned' = FALSE
    /\ response_data' = GateResponseData(r)
    /\ failure_code' = GateFailureCode(Gate(r))
    /\ IF Gate(r) # "permitted"
       THEN /\ response' = Some(MakeResponse(response_data', failure_code'))
            /\ exception' = None
            /\ pc' = "idle"
       ELSE /\ response' = None
            /\ IF r.has_param
               THEN exception' = None /\ pc' = "save"
               ELSE \E e \in KeyErrors : exception' = Some(e) /\ pc' = "except"
    /\ upload' = None
    /\ UNCHANGED <<upload_id, submission_map, storage, next_submission, stage_complete>>
    /\ UNCHANGED <<feedbackVars, questionVars>>

----------------------------------------------------------------------------
(* persist_and_submit_file *)

\* Mutant: the exception is re-raised with the message it came with.
Annotate_unchanged(prefix, name, e) == e

\* The except clauses: the message is replaced and the exception re-raised.
Annotate(prefix, name, e) ==
    [e EXCEPT !.message = <<prefix, name, " - ">> \o (IF e.has_message THEN e.message ELSE <<>>),
              !.has_message = TRUE]

UploadFile(name) == [name |-> name, submission_id |-> None, file_url |-> None]

PublishCall(file) ==
    [name |-> "publish", event |-> SUBMISSION_RECEIVED_EVENT,
     keys |-> {"submission_id", "filename", "content_id", "group_id", "user_id"}]

\* lines 325-333
save_file(outcome) ==
    /\ pc = "save"
    /\ calls' = Append(calls, Call("save_file"))
    /\ IF outcome = None
       THEN /\ uploaded_file' = Some(UploadFile(req.file_name))
            /\ storage' = storage \cup {req.file_name}
            /\ pc' = "submit"
            /\ UNCHANGED exception
       ELSE /\ uploaded_file' = Some(UploadFile(req.file_name))
            /\ exception' = Some(Annotate("Error storing file ", req.file_name,
                                          Raised(outcome[1], "save_file")))
            /\ pc' = "except"
            /\ UNCHANGED storage
    /\ UNCHANGED <<upload_id, submission_map, next_submission, stage_complete, req,
                   relay_returned, response_data, failure_code, response, upload>>
    /\ UNCHANGED <<feedbackVars, questionVars>>

\* UploadFile.submit: the file gets its submission id and its url.
Submitted(file, n) ==
    [file EXCEPT !.submission_id = Some(n), !.file_url = Some(<<"http://x/", file.name>>)]

\* The record the submissions API keeps for a submitted file.
SubmissionRecord(file, n) ==
    [document_url |-> file.file_url[1], document_filename |-> file.name,
     modified |-> <<2015, 2, n>>, user_details |-> [id |-> UserId]]

\* lines 336-337 and 350-355
submit(outcome) ==
    /\ pc = "submit"
    /\ calls' = Append(calls, Call("submit"))
    /\ IF outcome = None
       THEN /\ next_submission < MaxSubmissions
            /\ next_submission' = next_submission + 1
            /\ uploaded_file' = Some(Submitted(uploaded_file[1], next_submission + 1))
            /\ submission_map' = [submission_map EXCEPT ![WorkgroupId] =
                   (upload_id :> SubmissionRecord(Submitted(uploaded_file[1], next_submission + 1),
                                                  next_submission + 1)) @@ @]
            /\ pc' = "publish"
            /\ UNCHANGED exception
       ELSE /\ exception' = Some(Annotate("Error recording file information ",
                                          req.file_name, Raised(outcome[1], "submit")))
            /\ pc' = "except"
            /\ UNCHANGED <<next_submission, uploaded_file, submission_map>>
    /\ UNCHANGED <<upload_id, storage, stage_complete, req, relay_returned,
                   response_data, failure_code, response, upload>>
    /\ UNCHANGED <<feedbackVars, questionVars>>

\* lines 339-355: runtime.publish is inside the same try block as submit
PublishRaised(name, e) == Some(Annotate("Error recording file information ", name, e))

publish(outcome) ==
    /\ pc = "publish"
    /\ calls' = Append(calls, PublishCall(uploaded_file[1]))
    /\ IF outcome = None
       THEN pc' = "notify" /\ UNCHANGED exception
       ELSE exception' = PublishRaised(req.file_name, Raised(outcome[1], "publish")) /\ pc' = "except"
    /\ UNCHANGED <<upload_id, submission_map, storage, next_submission, stage_complete,
                   req, uploaded_file, relay_returned, response_data, failure_code,
                   response, upload>>
    /\ UNCHANGED <<feedbackVars, questionVars>>

\* lines 361-365: notifications_service is the result of runtime.service
\* Mutant: the notification is fired without looking at the service.
NotificationCalls_always(notifications_service) ==
    <<Call("fire_file_upload_notification")>>

NotificationCalls(notifications_service) ==
    IF notifications_service THEN <<Call("fire_file_upload_notification")>> ELSE <<>>

notify(outcome) ==
    /\ pc = "notify"
    /\ req.notifications_service \/ outcome = None
    /\ calls' = calls \o NotificationCalls(req.notifications_service)
    /\ IF outcome = None
       THEN relay_returned' = TRUE /\ pc' = "check" /\ UNCHANGED exception
       ELSE /\ exception' = Some(Raised(outcome[1], "fire_file_upload_notification"))
            /\ pc' = "except"
            /\ UNCHANGED relay_returned
    /\ UNCHANGED <<upload_id, submission_map, storage, next_submission, stage_complete,
                   req, uploaded_file, response_data, failure_code, response, upload>>
    /\ UNCHANGED <<feedbackVars, questionVars>>

----------------------------------------------------------------------------
(* upload_submission, lines 298-319 *)

\* line 298
WithSubmissions(data, file) ==
    ("submissions" :> (file.submission_id[1] :> file.file_url[1])) @@ data

\* lines 298-300
check_submissions_and_mark_complete(outcome) ==
    /\ pc = "check"
    /\ response_data' = WithSubmissions(response_data, uploaded_file[1])
    /\ calls' = Append(calls, Call("check_submissions_and_mark_complete"))
    /\ IF outcome = None
       THEN /\ stage_complete' = (stage_complete \/ all_slots_filled(submission_map[WorkgroupId]))
            /\ pc' = "state"
            /\ UNCHANGED exception
       ELSE /\ exception' = Some(Raised(outcome[1], "check_submissions_and_mark_complete"))
            /\ pc' = "except"
            /\ UNCHANGED stage_complete
    /\ UNCHANGED <<upload_id, submission_map, storage, next_submission, req,
                   uploaded_file, relay_returned, failure_code, response, upload>>
    /\ UNCHANGED <<feedbackVars, questionVars>>

\* lines 301 and 315-319
get_new_stage_state_data(outcome) ==
    /\ pc = "state"
    /\ IF outcome = None
       THEN /\ response_data' =
                  ("new_stage_states" :> <<[completed |-> stage_complete]>>) @@ response_data
            /\ response' = Some(MakeResponse(response_data', failure_code))
            /\ pc' = "idle"
            /\ UNCHANGED exception
       ELSE /\ exception' = Some(Raised(outcome[1], "get_new_stage_state_data"))
            /\ pc' = "except"
            /\ UNCHANGED <<response_data, response>>
    /\ UNCHANGED <<upload_id, submission_map, storage, next_submission, stage_complete,
                   req, calls, uploaded_file, relay_returned, failure_code, upload>>
    /\ UNCHANGED <<feedbackVars, questionVars>>

\* Mutant: line 306-307 (the ApiError code) is missing.
ExceptionFailureCode_500(e) == INTERNAL_ERROR

\* lines 305-307
ExceptionFailureCode(e) ==
    IF e.kind = "ApiError" THEN e.code ELSE INTERNAL_ERROR

\* line 308
ErrorMessage(e) == IF e.has_message THEN e.message ELSE UNKNOWN_ERROR

\* Mutant: the update keeps the keys the dict already has.
FailedResponseData_keep(data, e) ==
    data @@ [title |-> FAILED_UPLOAD_TITLE,
             message |-> FAILED_UPLOAD_MESSAGE_TPL(IF e.has_message THEN e.message
                                                                   ELSE UNKNOWN_ERROR)]

\* lines 310-313
FailedResponseData(data, e) ==
    [title |-> FAILED_UPLOAD_TITLE,
     message |-> FAILED_UPLOAD_MESSAGE_TPL(ErrorMessage(e))] @@ data

\* lines 303-319
handle_exception ==
    /\ pc = "except"
    /\ failure_code' = ExceptionFailureCode(exception[1])
    /\ response_data' = FailedResponseData(response_data, exception[1])
    /\ response' = Some(MakeResponse(response_data', failure_code'))
    /\ pc' = "idle"
    /\ UNCHANGED <<upload_id, submission_map, storage, next_submission, stage_complete,
                   req, calls, uploaded_file, relay_returned, exception, upload>>
    /\ UNCHANGED <<feedbackVars, questionVars>>

----------------------------------------------------------------------------
(* get_upload, as called by the upload property and submission_review_view *)

GetUpload(group_id) ==
    /\ pc = "idle"
    /\ upload' = Some([group_id |-> group_id,
                       result |-> get_upload(submission_map[group_id], upload_id)])
    /\ UNCHANGED <<upload_id, submission_map, storage, next_submission, stage_complete,
                   pc, req, calls, uploaded_file, relay_returned, response_data,
                   failure_code, exception, response>>
    /\ UNCHANGED <<feedbackVars, questionVars>>

----------------------------------------------------------------------------

(* The feedback display *)

\* A reviewer's answer reaches the project API.
AddReviewItem(item) ==
    /\ Len(api_items) < MaxItems
    /\ api_items' = Append(api_items, item)
    /\ view' = None
    /\ UNCHANGED <<question_id, show_mean>>
    /\ UNCHANGED <<submissionVars, questionVars>>

\* outsider: the user may not see the workgroup (OutsiderDisallowedError),
\* which outsider_disallowed_protected_view turns into an error fragment
student_view(outsider) ==
    /\ view' = Some(student_view_result(api_items, question_id, show_mean, outsider))
    /\ UNCHANGED <<question_id, show_mean, api_items>>
    /\ UNCHANGED <<submissionVars, questionVars>>

InitFeedback ==
    /\ InitSubmission
    /\ upload_id = "doc1"
    /\ submission_map[WorkgroupId] = EmptyDict
    /\ question_id \in QuestionIds
    /\ show_mean \in BOOLEAN
    /\ api_items = <<>>
    /\ view = None
    /\ InitQuestionIdle

NextFeedback ==
    \/ \E item \in ReviewItems : AddReviewItem(item)
    \/ \E outsider \in BOOLEAN : student_view(outsider)

SpecFeedback == InitFeedback /\ [][NextFeedback]_vars

----------------------------------------------------------------------------
(* The review question *)

\* The author types the next token of the question's content in Studio.
EditQuestionContent(token) ==
    /\ Len(question_content) < MaxContentLen
    /\ question_content' = Append(question_content, token)
    /\ question_view' = None
    /\ UNCHANGED <<rq_question_id, single_line, required, question_css_classes>>
    /\ UNCHANGED <<submissionVars, feedbackVars>>

\* is_closed: stage.is_closed when the view is rendered
question_student_view(is_closed) ==
    /\ question_view' = Some(question_student_view_result(question_content, rq_question_id,
                                 single_line, required, question_css_classes, is_closed))
    /\ UNCHANGED <<rq_question_id, question_content, single_line, required,
                   question_css_classes>>
    /\ UNCHANGED <<submissionVars, feedbackVars>>

InitQuestion ==
    /\ InitSubmission
    /\ upload_id = "doc1"
    /\ submission_map[WorkgroupId] = EmptyDict
    /\ InitFeedbackIdle
    /\ rq_question_id \in {"q1", "q2"}
    /\ question_content = <<>>
    /\ single_line \in BOOLEAN
    /\ required \in BOOLEAN
    /\ question_css_classes \in {None, <<"wide">>}
    /\ question_view = None

NextQuestion ==
    \/ \E token \in XmlTokens : EditQuestionContent(token)
    \/ \E is_closed \in BOOLEAN : question_student_view(is_closed)

SpecQuestion == InitQuestion /\ [][NextQuestion]_vars

----------------------------------------------------------------------------

Next ==
    \/ \E r \in Requests : upload_submission(r)
    \/ \E o \in Outcomes : save_file(o)
    \/ \E o \in Outcomes : submit(o)
    \/ \E o \in Outcomes : publish(o)
    \/ \E o \in Outcomes : notify(o)
    \/ \E o \in Outcomes : check_submissions_and_mark_complete(o)
    \/ \E o \in Outcomes : get_new_stage_state_data(o)
    \/ handle_exception
    \/ \E g \in Groups : GetUpload(g)

Spec == Init /\ [][Next]_vars

----------------------------------------------------------------------------
(* Properties of upload_submission and get_upload *)

\* The handler has answered the request `req`.
Done == pc = "idle" /\ response # None

Status == response[1].status_code
Body == response[1].body

SideEffectCalls == {"save_file", "submit", "publish", "fire_file_upload_notification",
                    "check_submissions_and_mark_complete"}

Invoked(name) == \E i \in 1..Len(calls) : calls[i].name = name
TimesInvoked(name) == Cardinality({i \in 1..Len(calls) : calls[i].name = name})

RaisedBy(origin) == exception # None /\ exception[1].origin = origin

\* C1: a request to a stage that is neither open nor closed is answered 422
\* with result 'error' and the "not yet opened" message, whatever the group
\* membership and the payload.
C1_NotYetOpen ==
    (Done /\ ~req.is_open /\ ~req.is_closed) =>
        /\ Status = 422
        /\ DOMAIN Body = {"result", "message"}
        /\ Body.result = "error"
        /\ Body.message = <<"Can't ", STAGE_ACTION, " as stage is not yet opened.">>

C1_Witness ==
    /\ Done /\ ~req.is_open /\ ~req.is_closed
    /\ req.is_group_member /\ ~req.has_param
    /\ Status = 422

\* C2: a request to a closed stage is answered 422 with result 'error' and the
\* "closed" message, never the "not yet opened" one.
C2_ClosedMessage ==
    (Done /\ req.is_closed) =>
        /\ Status = 422
        /\ Body.result = "error"
        /\ Body.message = <<"Can't ", STAGE_ACTION, " as stage is closed.">>

\* C3: a request of a user outside the group to an available stage is
\* answered 403 with result 'error' and 'Only group members can upload files',
\* whatever the payload.
C3_NotGroupMember ==
    (Done /\ available_now(req) /\ ~req.is_group_member) =>
        /\ Status = 403
        /\ DOMAIN Body = {"result", "message"}
        /\ Body.result = "error"
        /\ Body.message = <<"Only group members can upload files">>

C3_Witness ==
    /\ Done /\ available_now(req) /\ ~req.is_group_member
    /\ ~req.has_param
    /\ Status = 403

\* C4: a request makes one of the five side-effect calls only if the stage is
\* available and the user is a group member; a request the gate answers with
\* 422 or 403 has made none of them.
C4_NoSideEffectUnlessPermitted ==
    /\ (\E n \in SideEffectCalls : Invoked(n)) =>
           (available_now(req) /\ req.is_group_member)
    /\ (Done /\ ~(available_now(req) /\ req.is_group_member)) =>
           /\ Status \in {422, 403}
           /\ calls = <<>>

C4_Witness ==
    /\ Done /\ Status = 403 /\ calls = <<>>
    /\ req.has_param /\ storage # {}

\* C5: once persist_and_submit_file has returned, the file carries
\* submission_id and file_url, runtime.publish has been invoked exactly once
\* with the event and the five payload keys, and the notification has been
\* fired iff the notification service is available; no exception comes from
\* the notification step when the service is absent.
C5_RelayReturn ==
    /\ relay_returned =>
        /\ uploaded_file # None
        /\ uploaded_file[1].submission_id # None
        /\ uploaded_file[1].file_url # None
        /\ TimesInvoked("publish") = 1
        /\ \A i \in 1..Len(calls) : calls[i].name = "publish" =>
              /\ calls[i].event = "activity.received_submission"
              /\ calls[i].keys = {"submission_id", "filename", "content_id",
                                  "group_id", "user_id"}
        /\ Invoked("fire_file_upload_notification") <=> req.notifications_service
    /\ RaisedBy("fire_file_upload_notification") => req.notifications_service

C5_Witness ==
    /\ relay_returned /\ ~req.notifications_service
    /\ ~Invoked("fire_file_upload_notification")
    /\ TimesInvoked("publish") = 1

\* C6: when runtime.publish raises after save_file and submit succeeded, the
\* relay still returns the file and the handler answers with the success
\* title, the submissions entry and the success status.
C6_PublishBestEffort ==
    (Done /\ RaisedBy("publish")) =>
        /\ relay_returned
        /\ Body.title = SUCCESSFUL_UPLOAD_TITLE
        /\ "submissions" \in DOMAIN Body
        /\ Status = 200

\* C7: when save_file or submit raises, the answer carries the 'Upload failed.'
\* title and the completion check is not invoked; the completion check is only
\* ever invoked after persist_and_submit_file has returned.
C7_FailedRelay ==
    /\ (Done /\ (RaisedBy("save_file") \/ RaisedBy("submit"))) =>
           /\ Body.title = "Upload failed."
           /\ ~Invoked("check_submissions_and_mark_complete")
    /\ Invoked("check_submissions_and_mark_complete") => relay_returned
    /\ pc \in {"state"} => relay_returned

C7_Witness ==
    /\ Done /\ RaisedBy("submit")
    /\ storage # {}
    /\ Body.title = "Upload failed."

\* C8: an exception raised in the permitted branch is answered with status 500,
\* or with the ApiError's code; the title is 'Upload failed.' and the message is
\* 'Error uploading file: ' followed by the exception's message, or by
\* 'Unknown error' when it has none; the handler always answers.
C8_ExceptionResponse ==
    /\ (Done /\ exception # None) =>
           /\ Status = IF exception[1].kind = "ApiError" THEN exception[1].code ELSE 500
           /\ Body.title = "Upload failed."
           /\ Body.message = <<"Error uploading file: ">> \o
                  (IF exception[1].has_message THEN exception[1].message
                                               ELSE <<"Unknown error">>)
    /\ pc = "except" => (exception # None /\ ENABLED handle_exception)
    /\ (exception # None /\ pc = "idle") => response # None

C8_Witness ==
    /\ Done /\ RaisedBy("check_submissions_and_mark_complete")
    /\ exception[1].kind = "ApiError"
    /\ Status = exception[1].code

\* C9: get_upload(group_id) returns a record iff upload_id is a key of the
\* group's submission map; its location and file_name are the entry's
\* document_url and document_filename and its user_details the entry's, or None.
C9_GetUpload ==
    upload # None =>
        LET map == submission_map[upload[1].group_id]
            result == upload[1].result
        IN  /\ (result # None) <=> (upload_id \in DOMAIN map)
            /\ result # None =>
                  /\ result[1].location = map[upload_id].document_url
                  /\ result[1].file_name = map[upload_id].document_filename
                  /\ result[1].user_details =
                        IF "user_details" \in DOMAIN map[upload_id]
                        THEN <<map[upload_id].user_details>> ELSE <<>>

C9_Witness ==
    /\ upload # None /\ upload[1].result # None
    /\ upload[1].group_id = WorkgroupId
    /\ next_submission > 0
    /\ upload[1].result[1].user_details # None

C9_WitnessAbsent ==
    upload # None /\ upload[1].result = None

----------------------------------------------------------------------------
(* Properties of the feedback display *)

Rendered == view # None /\ view[1].kind = "rendered"

\* positions of the API items that are about the block's question
MatchedItems == {i \in 1..Len(api_items) : api_items[i].question = question_id}

\* position in the displayed list of the matched item at position i
Rank(i) == Cardinality({j \in MatchedItems : j <= i})

Entities == {<<<<"&", "a", "m", "p", ";">>, "&">>, <<<<"&", "l", "t", ";">>, "<">>,
             <<<<"&", "g", "t", ";">>, ">">>, <<<<"&", "q", "u", "o", "t", ";">>, "\"">>}

StartsWith(text, prefix) ==
    Len(text) >= Len(prefix) /\ SubSeq(text, 1, Len(prefix)) = prefix

\* What a browser shows for an escaped text: entities read back, once.
RECURSIVE Displayed(_)
Displayed(text) ==
    IF text = <<>> THEN <<>>
    ELSE IF text[1] = "&"
         THEN IF \E e \in Entities : StartsWith(text, e[1])
              THEN LET e == CHOOSE e \in Entities : StartsWith(text, e[1])
                   IN  <<e[2]>> \o Displayed(SubSeq(text, Len(e[1]) + 1, Len(text)))
              ELSE <<"malformed">>
         ELSE <<text[1]>> \o Displayed(Tail(text))

\* `shown` is `raw` HTML-escaped exactly once.
EscapedOnce(shown, raw) ==
    /\ \A i \in 1..Len(shown) : shown[i] \notin {"<", ">", "\""}
    /\ Displayed(shown) = raw
    /\ raw = <<"<", "b", ">">> => shown = <<"&", "l", "t", ";", "b", "&", "g", "t", ";">>

\* C10: the displayed feedback is the answers of the API items whose question
\* equals question_id exactly, in the API's order and multiplicity, each
\* HTML-escaped once; the API's items are left as they are.
C10_FeedbackList ==
    Rendered =>
        /\ Len(view[1].feedback) = Cardinality(MatchedItems)
        /\ \A i \in MatchedItems :
              EscapedOnce(view[1].feedback[Rank(i)], api_items[i].answer)

C10_Witness ==
    /\ Rendered
    /\ question_id = "q1"
    /\ Len(api_items) = 2
    /\ api_items[1].question = "Q1"
    /\ api_items[2] = [question |-> "q1", answer |-> <<"<", "b", ">">>]
    /\ view[1].feedback = << <<"&", "l", "t", ";", "b", "&", "g", "t", ";">> >>

\* the matched answers, as the API holds them
MatchedAnswer(i) == api_items[i].answer
AllMatchedNumeric == \A i \in MatchedItems : IsNumeric(MatchedAnswer(i))

RECURSIVE MatchedTotal(_)
MatchedTotal(S) ==
    IF S = {} THEN 0
    ELSE LET i == CHOOSE i \in S : TRUE
         IN  NumericValue(MatchedAnswer(i)) + MatchedTotal(S \ {i})

\* `shown` is the number total / count written with one decimal place.
OneDecimalOf(shown, total, count) ==
    /\ Len(shown) = 3 /\ shown[2] = "." /\ shown[1] >= 0 /\ shown[3] \in 0..9
    /\ LET d == count * (10 * shown[1] + shown[3]) - 10 * total
       IN  2 * d <= count /\ -2 * d <= count

\* C11: with show_mean and at least one matched answer, the mean is the
\* arithmetic mean of all matched answers to one decimal place when all of them
\* are numbers ('3' and '5' give '4.0'), and 'N/A' for the whole set as soon as
\* one is not; the view is rendered in both cases.  Without show_mean there is
\* no mean in the render context.
C11_Mean ==
    /\ Rendered =>
        /\ view[1].has_mean = show_mean
        /\ ~show_mean => view[1].mean = <<>>
        /\ (show_mean /\ MatchedItems # {}) =>
              IF AllMatchedNumeric
              THEN OneDecimalOf(view[1].mean, MatchedTotal(MatchedItems),
                                Cardinality(MatchedItems))
              ELSE view[1].mean = <<"N/A">>
        /\ (show_mean /\ Cardinality(MatchedItems) = 2
              /\ {MatchedAnswer(i) : i \in MatchedItems} = {<<"3">>, <<"5">>}) =>
              view[1].mean = <<4, ".", 0>>
    /\ (view # None /\ view[1].kind = "ValueError") => question(question_id) < 1

C11_Witness ==
    /\ Rendered /\ show_mean
    /\ question_id = "q1"
    /\ api_items = <<[question |-> "q1", answer |-> <<"3">>],
                     [question |-> "q1", answer |-> <<"5">>]>>
    /\ view[1].feedback = << <<"3">>, <<"5">> >>
    /\ view[1].mean = <<4, ".", 0>>

C11_WitnessNotApplicable ==
    /\ Rendered /\ show_mean
    /\ Cardinality(MatchedItems) = 2
    /\ \E i \in MatchedItems : IsNumeric(MatchedAnswer(i))
    /\ view[1].mean = <<"N/A">>

----------------------------------------------------------------------------
(* Properties of the review question *)

\* The well-formed documents over the tokens, built from the inside out:
\* an empty element, or a select element around at most two elements.
OptionalClass == {<<>>, <<ClassAttribute>>}

EmptyElements == {<<o>> \o a \o <<"/>">> : o \in OpenTags, a \in OptionalClass}

SelectAround(kids) == {<<"<select">> \o a \o <<">">> \o k \o <<"</select>">> :
                          a \in OptionalClass, k \in kids}

UpToTwo(elements) ==
    {<<>>} \cup elements \cup {x \o y : x \in elements, y \in elements}

Elements1 == EmptyElements \cup SelectAround({<<>>})
Elements2 == EmptyElements \cup SelectAround(UpToTwo(Elements1))
WellFormedDocuments == EmptyElements \cup SelectAround(UpToTwo(Elements2))

QuestionRendered == question_view # None /\ question_view[1].kind = "rendered"

\* C13: a review question whose content is malformed XML renders the empty
\* string and logs the failure, and the student view is still rendered; for
\* well-formed content the markup is that of the answer node, not empty, with
\* name and id set to question_id.
C13_RenderContent ==
    question_view # None =>
        /\ question_view[1].kind = "rendered"
        /\ IF question_content \in WellFormedDocuments
           THEN /\ question_view[1].question_content # <<>>
                /\ Len(question_view[1].question_content) = 1
                /\ question_view[1].question_content[1].tag = question_content[1]
                /\ question_view[1].question_content[1].attrib.name = rq_question_id
                /\ question_view[1].question_content[1].attrib.id = rq_question_id
                /\ question_view[1].logged = <<>>
           ELSE /\ question_view[1].question_content = <<>>
                /\ question_view[1].logged # <<>>

C13_Witness ==
    /\ QuestionRendered
    /\ question_content = <<"<select", ">", "<input", "/>">>
    /\ question_view[1].question_content = <<>>
    /\ question_view[1].logged # <<>>
    /\ "question" \in {question_view[1].question_classes[k] :
                          k \in 1..Len(question_view[1].question_classes)}

C13_WitnessWellFormed ==
    /\ QuestionRendered
    /\ question_content = <<"<select", ClassAttribute, ">", "</select>">>
    /\ question_view[1].question_content # <<>>

----------------------------------------------------------------------------
(* Further properties of upload_submission *)

RelayOrder == <<"save_file", "submit", "publish", "fire_file_upload_notification",
                "check_submissions_and_mark_complete">>

Position(name) == CHOOSE k \in 1..Len(RelayOrder) : RelayOrder[k] = name

CallNames == [i \in 1..Len(calls) |-> calls[i].name]

\* C14: the relay calls save_file, submit, runtime.publish and the notification
\* in that order.  When save_file raises nothing else is called and the message
\* starts with 'Error storing file'; when submit raises after save_file, neither
\* publish nor the notification is called, the stored file stays stored, and the
\* message starts with 'Error recording file information'.
C14_RelayOrder ==
    /\ \A i, j \in 1..Len(calls) : i < j => Position(calls[i].name) < Position(calls[j].name)
    /\ \A i \in 1..Len(calls) :
          calls[i].name # "save_file" =>
              \E j \in 1..(i - 1) : Position(calls[j].name) = Position(calls[i].name) - 1
                                    \/ (calls[i].name = "check_submissions_and_mark_complete"
                                        /\ calls[j].name = "publish")
    /\ (RaisedBy("save_file") \/ RaisedBy("submit")) =>
          /\ exception[1].has_message
          /\ Len(exception[1].message) >= 3
          /\ exception[1].message[2] = req.file_name
    /\ RaisedBy("save_file") =>
          /\ CallNames = <<"save_file">>
          /\ Head(exception[1].message) = "Error storing file "
    /\ RaisedBy("submit") =>
          /\ CallNames = <<"save_file", "submit">>
          /\ req.file_name \in storage
          /\ Head(exception[1].message) = "Error recording file information "

C14_Witness ==
    /\ Done /\ RaisedBy("submit")
    /\ CallNames = <<"save_file", "submit">>
    /\ req.file_name \in storage
    /\ Body.message[2] = "Error recording file information "

\* C15: the response has the success status iff its title is 'Upload
\* complete.', and carries the 'submissions' and 'new_stage_states' keys iff it
\* has the success status.
C15_ResponseConsistency ==
    Done =>
        /\ (Status = 200 /\ failure_code = 0) <=>
              ("title" \in DOMAIN Body /\ Body.title = "Upload complete.")
        /\ "submissions" \in DOMAIN Body <=> Status = 200
        /\ "new_stage_states" \in DOMAIN Body <=> Status = 200

====
